---- MODULE Spec2Model ----
(***************************************************************************)
(* A model of src/app.py: a Streamlit script (one script run per user      *)
(* interaction) that indexes an uploaded PDF contract and answers queries  *)
(* about it, plus its two deterministic tools.                             *)
(*                                                                         *)
(* Text is modelled as a sequence of one-character strings (the tools) or  *)
(* of atomic tokens (the rendered markdown: a header literal, "- ", "\n",   *)
(* a summary or an item are one token each); characters outside ASCII are  *)
(* written by their code point, e.g. "U+20AC" for the euro sign.           *)
(***************************************************************************)
EXTENDS Integers, Sequences, FiniteSets, TLC

VARIABLES
    env_key,        \* os.environ holds a non-empty OPENAI_API_KEY (process-wide)
    session_state,  \* st.session_state: no keys at first, then "messages"
    cache,          \* st.cache_resource store of process_pdf: file_path -> index
    files,          \* temp files on disk: path -> document bytes written
    pc,             \* position of the script run ("idle": waiting for a rerun)
    uploaded_file,  \* st.file_uploader's value in this run
    temp_path,      \* tmp_file.name of this run
    vector_store,   \* the index process_pdf returned in this run
    query,          \* st.chat_input's value in this run
    display,        \* what this run has rendered so far
    calls,          \* the document and query work this run has invoked so far
    at_start,       \* snapshot taken when the run started (history variable)
    others,         \* the temp files that runs of other sessions have written
    call,           \* a tool or formatter evaluated on its own: its arguments
    ret             \* ... and its outcome

vars == <<env_key, session_state, cache, files, pc, uploaded_file, temp_path,
          vector_store, query, display, calls, at_start, others, call, ret>>

----------------------------------------------------------------------------
(* Bounds and input domains *)

\* how many uploads the model follows, the session's and other sessions'
\* together (one temp file each)
MaxFiles == 2

\* the longest list a LegalResponse holds
MaxItems == 2

None == "None"

\* the distinct PDFs a user may upload, by content
Docs == {"docA", "docB"}

\* the non-empty queries a user may submit
Queries == {"q1", "q2"}

NoPath == 0

NoIndex == [doc |-> None, complete |-> FALSE]

----------------------------------------------------------------------------
(* Sequence helpers *)

RECURSIVE Flatten(_)
Flatten(ss) == IF ss = <<>> THEN <<>> ELSE Head(ss) \o Flatten(Tail(ss))

\* sep.join(parts), every part and sep a token sequence
RECURSIVE Join(_, _)
Join(sep, parts) ==
    IF parts = <<>> THEN <<>>
    ELSE IF Len(parts) = 1 THEN Head(parts)
    ELSE Head(parts) \o sep \o Join(sep, Tail(parts))

Range(s) == {s[i] : i \in 1..Len(s)}

Last(s) == s[Len(s)]

IsPrefix(s, t) == Len(s) <= Len(t) /\ SubSeq(t, 1, Len(s)) = s

----------------------------------------------------------------------------
(* LegalResponse and its rendering (lines 28-36, 159-173) *)

ClauseReference(id, text) == [id |-> id, text |-> text]

LegalResponse(summary, obligations, risks, supporting_clauses) ==
    [summary |-> summary, obligations |-> obligations, risks |-> risks,
     supporting_clauses |-> supporting_clauses]

NL == "\n"

SummaryHeader == "### Summary"

ObligationsHeader == "### Obligations"

RisksHeader == "### Risks & Penalties"

\* [f"- {item}" for item in items]
Bullets(items) == [i \in 1..Len(items) |-> <<"- ", items[i]>>]

\* line 162 / 165: header + "\n".join(bullets) + "\n\n"
Section(header, items) == <<header, NL>> \o Join(<<NL>>, Bullets(items)) \o <<NL, NL>>

\* faulty variant: the obligations header is written whether or not there are obligations
ShowObligations_always(response) == TRUE

\* line 161: if response.obligations
ShowObligations(response) == response.obligations # <<>>

\* line 164: if response.risks
ShowRisks(response) == response.risks # <<>>

\* lines 159-165: output_md
FormatOutput(response) ==
    <<SummaryHeader, NL, response.summary, NL, NL>>
    \o (IF ShowObligations(response)
        THEN Section(ObligationsHeader, response.obligations) ELSE <<>>)
    \o (IF ShowRisks(response)
        THEN Section(RisksHeader, response.risks) ELSE <<>>)

Shown(widget, text) == [w |-> widget, text |-> text]

\* lines 171-173: one st.markdown per clause inside the expander
Evidence(response) ==
    [i \in 1..Len(response.supporting_clauses) |->
        Shown("expander.markdown",
              <<"**", response.supporting_clauses[i].id, "**: *",
                response.supporting_clauses[i].text, "*">>)]

----------------------------------------------------------------------------
(* The script run (lines 107-181) *)

Messages == IF "messages" \in DOMAIN session_state THEN session_state.messages ELSE <<>>

Message(role, content) == [role |-> role, content |-> content]

\* what analyze_query may hand back in the application runs
AppResponses ==
    { LegalResponse("sum1", <<"ob1", "ob2">>, <<"risk1">>,
                    <<ClauseReference("Clause 1", "text1")>>),
      LegalResponse("sum2", <<>>, <<>>, <<>>) }

\* faulty variant: the missing key is only warned about, the run is not stopped
AfterKeyGuard_nostop(key_present, has_file) ==
    IF has_file THEN "save" ELSE "no_upload"

\* lines 120-124, 180: where the run goes after the credential guard
AfterKeyGuard(key_present, has_file) ==
    IF ~key_present THEN "stopped"
    ELSE IF has_file THEN "save" ELSE "no_upload"

\* faulty variant: every upload is saved under one fixed name
NamedTemporaryFile_fixed(on_disk) == NoPath + 1

\* line 126: tempfile.NamedTemporaryFile(delete=False) names a file that does not
\* exist yet; the files are never deleted, so no name comes back
NamedTemporaryFile(on_disk) == Cardinality(DOMAIN on_disk) + 1

\* lines 64-74: the stages of process_pdf's body, in order
BuildStages == <<"load", "chunk", "embed", "index">>

StageNo(stage) == CHOOSE i \in 1..Len(BuildStages) : BuildStages[i] = stage

\* line 74: the store FAISS.from_documents builds from the file's chunks
BuiltIndex(doc) == [doc |-> doc, complete |-> TRUE]

\* faulty variant: a call that raised is remembered too, with what had been built so far
CacheStore_keeps_failed(store, key, outcome, value) ==
    (key :> (IF outcome = "ok" THEN value ELSE [value EXCEPT !.complete = FALSE]))
    @@ store

\* line 57: st.cache_resource keeps the value of a call that returned, under the
\* call's arguments; a call that raised stores nothing
CacheStore(store, key, outcome, value) ==
    IF outcome = "ok" THEN (key :> value) @@ store ELSE store

\* faulty variant: the except branch reports the error and falls through to the chat
AfterBuild_nostop(outcome) == "chat"

\* lines 131-136: the run goes on to the chat only when process_pdf returned;
\* the except branch reports and st.stop()s
AfterBuild(outcome) == IF outcome = "ok" THEN "chat" ELSE "idle"

\* faulty variant: the except branch starts the conversation afresh
MessagesOnError_clears(messages) == <<>>

\* lines 178-179: the except branch of a query leaves the history alone
MessagesOnError(messages) == messages

\* faulty variant: the answer is stored in place of the user's entry
MessagesOnSuccess_replaces(messages, output_md) ==
    Append(SubSeq(messages, 1, Len(messages) - 1), Message("assistant", output_md))

\* line 176: a successful answer is appended after the user's entry
MessagesOnSuccess(messages, output_md) ==
    Append(messages, Message("assistant", output_md))

\* lines 142-144: every stored message is rendered again
ShowHistory(messages) ==
    [i \in 1..Len(messages) |->
        Shown("chat_message." \o messages[i].role, messages[i].content)]

\* what a query's processing may do: answer with a response, raise inside
\* analyze_query (retrieval, model call, schema validation), or hand back no
\* object so that formatting raises
AnalyzeOutcomes ==
    {[kind |-> "ok", response |-> r] : r \in AppResponses}
    \cup {[kind |-> k, response |-> LegalResponse("", <<>>, <<>>, <<>>)] :
            k \in {"raise_analyze", "raise_format"}}

IdleCall == [fn |-> "none"]

IdleRet == [kind |-> "none"]

\* Every st.* call is a point where Streamlit's script runner, when a rerun has
\* been requested meanwhile (the user has interacted), abandons the run: it
\* raises a script-control exception, which is no Exception and passes the
\* except branches of lines 134 and 178, and nothing of that call is shown.
\* "stop" names the st.* call of a step at which that happens, "none" if at none;
\* an abandoned run leaves this mark in calls.
Rerun == "rerun"

Abandoned(stop) == IF stop = "none" THEN <<>> ELSE <<Rerun>>

Init ==
    /\ env_key \in BOOLEAN          \* load_dotenv() may or may not provide the key
    /\ session_state = <<>>
    /\ cache = <<>>
    /\ files = <<>>
    /\ pc = "idle"
    /\ uploaded_file = None
    /\ temp_path = NoPath
    /\ vector_store = NoIndex
    /\ query = None
    /\ display = <<>>
    /\ calls = <<>>
    /\ at_start = [messages |-> <<>>, prev_doc |-> None, prev_ok |-> FALSE,
                   prev_failed |-> FALSE]
    /\ others = {}
    /\ call = IdleCall
    /\ ret = IdleRet

\* lines 22-25, 107-118: a rerun starts; the sidebar is read and the history
\* created, unless the run is abandoned at one of the st.* calls before line 113
ScriptStart ==
    /\ pc = "idle"
    /\ \E uf \in (IF Cardinality(DOMAIN files) < MaxFiles THEN Docs ELSE {})
                    \cup {None},
          api_key \in {"", "sk-key"},
          stop \in {"none", "sidebar"} :
        /\ uploaded_file' = uf
        /\ env_key' = IF stop = "none" THEN (env_key \/ api_key # "") ELSE env_key
        /\ session_state' = IF stop = "none" THEN [messages |-> Messages]
                            ELSE session_state
        /\ calls' = Abandoned(stop)
        /\ pc' = IF stop = "none" THEN "guard" ELSE "idle"
    /\ at_start' = [messages |-> Messages, prev_doc |-> uploaded_file,
                    prev_ok |-> "returned" \in Range(calls),
                    prev_failed |-> /\ {"raise_analyze", "raise_format"}
                                          \cap Range(calls) # {}
                                    /\ display # <<>>
                                    /\ Last(display).w = "error"]
    /\ temp_path' = NoPath
    /\ vector_store' = NoIndex
    /\ query' = None
    /\ display' = <<>>
    /\ UNCHANGED <<cache, files, others, call, ret>>

\* lines 120-124, 180-181
KeyGuard ==
    /\ pc = "guard"
    /\ \E stop \in {"none", "report"} :
        LET next == AfterKeyGuard(env_key, uploaded_file # None)
            shows == next # "save" /\ stop = "none"
        IN  /\ pc' = IF next = "save" THEN "save" ELSE "idle"
            /\ display' = IF ~shows THEN display
                          ELSE IF next = "stopped"
                               THEN <<Shown("warning", <<"enter key">>)>>
                               ELSE <<Shown("info", <<"upload a PDF">>)>>
            /\ calls' = IF next = "save" THEN calls ELSE calls \o Abandoned(stop)
    /\ UNCHANGED <<env_key, session_state, cache, files, uploaded_file, temp_path,
                   vector_store, query, at_start, others, call, ret>>

\* lines 126-130: uploaded_file.read() hands over the upload's bytes, which are
\* written to the new file; then the spinner is entered
SaveTemp ==
    /\ pc = "save"
    /\ LET p == NamedTemporaryFile(files) IN
        /\ temp_path' = p
        /\ files' = (p :> uploaded_file) @@ files
    /\ \E stop \in {"none", "spinner"} :
        /\ calls' = Append(calls, "tempfile.write") \o Abandoned(stop)
        /\ pc' = IF stop = "none" THEN "build" ELSE "idle"
    /\ UNCHANGED <<env_key, session_state, cache, uploaded_file, vector_store,
                   query, display, at_start, others, call, ret>>

\* what lines 133 and 135 show
BuildReport(outcome) ==
    IF outcome = "ok" THEN Shown("success", <<"Document processed">>)
    ELSE Shown("error", <<"Error processing file", outcome>>)

\* lines 131-132 with 57-58: process_pdf(temp_path) is called. The cache looks
\* the key up: a stored value is returned at once and the run reports it (lines
\* 132-133, stops as in ProcessPdf); on a miss the cache shows its own spinner,
\* an st.* call ("enter"), and the body is entered, where the call waits in its
\* first stage
CallProcessPdf ==
    /\ pc = "build"
    /\ "process_pdf" \notin Range(calls)
    /\ \E stop \in {"none", "enter", "report", "spinner_exit"} :
        LET hit == temp_path \in DOMAIN cache IN
            /\ hit => stop # "enter"
            /\ ~hit => stop \in {"none", "enter"}
            /\ calls' = Append(calls, "process_pdf")
                        \o (IF hit THEN <<"returned">>
                            ELSE IF stop = "none" THEN <<BuildStages[1]>> ELSE <<>>)
                        \o Abandoned(stop)
            /\ vector_store' = IF hit THEN cache[temp_path] ELSE NoIndex
            /\ display' = IF hit /\ stop # "report"
                          THEN Append(display, BuildReport("ok")) ELSE display
            /\ pc' = IF stop # "none" THEN "idle"
                     ELSE IF hit THEN AfterBuild("ok") ELSE "build"
    /\ UNCHANGED <<env_key, session_state, cache, files, uploaded_file, temp_path,
                   query, at_start, others, call, ret>>

\* lines 64-76 and 132-136: the stage of process_pdf's body that the call waits
\* in (reading the file, the embedding backend) ends. It raises, or the body goes
\* on to the next stage and waits there, or the last stage returns. On a return
\* the cache stores the value; either way the cache's spinner is left, an st.*
\* call ("exit"), the outcome is reported by st.success / st.error ("report"),
\* and the spinner of line 130 is left ("spinner_exit", the report is shown).
ProcessPdf ==
    /\ pc = "build"
    /\ calls # <<>> /\ Last(calls) \in Range(BuildStages)
    /\ \E raises \in BOOLEAN, stop \in {"none", "exit", "report", "spinner_exit"} :
        LET stage   == Last(calls)
            last    == StageNo(stage) = Len(BuildStages)
            outcome == IF raises THEN stage ELSE "ok"
            value   == BuiltIndex(files[temp_path])
        IN  IF ~raises /\ ~last
            THEN /\ stop = "none"
                 /\ calls' = Append(calls, BuildStages[StageNo(stage) + 1])
                 /\ UNCHANGED <<cache, vector_store, display, pc>>
            ELSE /\ cache' = CacheStore(cache, temp_path, outcome, value)
                 /\ vector_store' = IF outcome = "ok" /\ stop # "exit" THEN value
                                    ELSE NoIndex
                 /\ calls' = Append(calls, IF outcome = "ok" THEN "returned" ELSE "raised")
                             \o Abandoned(stop)
                 /\ display' = IF stop \in {"exit", "report"} THEN display
                               ELSE Append(display, BuildReport(outcome))
                 /\ pc' = IF stop = "none" THEN AfterBuild(outcome) ELSE "idle"
    /\ UNCHANGED <<env_key, session_state, files, uploaded_file, temp_path, query,
                   at_start, others, call, ret>>

\* lines 139-146: the chat input is read and the stored messages are rendered
\* again; the run may be abandoned before the input is read or before any of
\* the messages is rendered
ChatInput ==
    /\ pc = "chat"
    /\ \E q \in Queries \cup {None},
          stop \in {"none", "chat_input", "history"},
          k \in 0..Len(Messages) :
        /\ (stop = "history") => k < Len(Messages)
        /\ (stop # "history") => k = Len(Messages)
        /\ query' = IF stop = "chat_input" THEN None ELSE q
        /\ pc' = IF stop = "none" /\ q # None THEN "user" ELSE "idle"
        /\ calls' = (IF stop = "chat_input" THEN calls ELSE Append(calls, "chat_input"))
                    \o Abandoned(stop)
        /\ display' = IF stop = "chat_input" THEN display
                      ELSE display \o SubSeq(ShowHistory(Messages), 1, k)
    /\ UNCHANGED <<env_key, session_state, cache, files, uploaded_file, temp_path,
                   vector_store, at_start, others, call, ret>>

\* lines 148-150: the entry is stored before it is shown
UserMessage ==
    /\ pc = "user"
    /\ session_state' = [session_state EXCEPT
                            !.messages = Append(@, Message("user", <<query>>))]
    /\ \E stop \in {"none", "show"} :
        /\ display' = IF stop = "none"
                      THEN Append(display, Shown("chat_message.user", <<query>>))
                      ELSE display
        /\ calls' = calls \o Abandoned(stop)
        /\ pc' = IF stop = "none" THEN "assistant" ELSE "idle"
    /\ UNCHANGED <<env_key, cache, files, uploaded_file, temp_path, vector_store,
                   query, at_start, others, call, ret>>

\* lines 153-155: the assistant's chat message and the spinner are shown, st.*
\* calls ("enter"), and analyze_query is called, where the run waits for the
\* retriever (line 84) and the model (line 103)
CallAnalyzeQuery ==
    /\ pc = "assistant"
    /\ "analyze_query" \notin Range(calls)
    /\ \E stop \in {"none", "enter"} :
        /\ calls' = IF stop = "none" THEN Append(calls, "analyze_query")
                    ELSE calls \o Abandoned(stop)
        /\ pc' = IF stop = "none" THEN "assistant" ELSE "idle"
    /\ UNCHANGED <<env_key, session_state, cache, files, uploaded_file, temp_path,
                   vector_store, query, display, at_start, others, call, ret>>

\* lines 155-179: analyze_query returns or raises. The st.* calls after it:
\* st.markdown(output_md) or st.error ("report"); the expander and the clauses'
\* st.markdown ("evidence", after k clauses); the entry is appended after all of
\* them; then the spinner of line 154 is left ("spinner_exit")
Assistant ==
    /\ pc = "assistant"
    /\ calls # <<>> /\ Last(calls) = "analyze_query"
    /\ \E out \in AnalyzeOutcomes,
          stop \in {"none", "report", "evidence", "spinner_exit"},
          k \in 0..MaxItems :
        LET ok     == out.kind = "ok"
            answer == Shown("chat_message.assistant", FormatOutput(out.response))
            shown  == Evidence(out.response)
        IN  /\ (stop = "evidence") => ok /\ (k = 0 \/ k < Len(shown))
            /\ (stop # "evidence") => k = 0
            /\ calls' = Append(calls, out.kind) \o Abandoned(stop)
            /\ display' =
                 IF stop = "report" THEN display
                 ELSE IF ~ok
                      THEN Append(display, Shown("error", <<"An error occurred", out.kind>>))
                 ELSE IF stop = "evidence"
                      THEN Append(display, answer) \o SubSeq(shown, 1, k)
                 ELSE Append(display, answer) \o shown
            /\ session_state' =
                 IF ~ok
                 THEN [session_state EXCEPT !.messages = MessagesOnError(@)]
                 ELSE IF stop \in {"none", "spinner_exit"}
                      THEN [session_state EXCEPT
                              !.messages = MessagesOnSuccess(@, FormatOutput(out.response))]
                 ELSE session_state
    /\ pc' = "idle"
    /\ UNCHANGED <<env_key, cache, files, uploaded_file, temp_path, vector_store,
                   query, at_start, others, call, ret>>

\* lines 111-113 in a run of another session: os.environ is the process's
OtherSessionKey ==
    /\ ~env_key
    /\ env_key' = TRUE
    /\ UNCHANGED <<session_state, cache, files, pc, uploaded_file, temp_path,
                   vector_store, query, display, calls, at_start, others, call, ret>>

\* lines 120-128 in a run of another session: past the guard, its upload is
\* written to a temp file of its own
OtherSessionSave ==
    /\ env_key
    /\ Cardinality(DOMAIN files) < MaxFiles
    /\ \E doc \in Docs :
        LET p == NamedTemporaryFile(files) IN
            /\ files' = (p :> doc) @@ files
            /\ others' = others \cup {p}
    /\ UNCHANGED <<env_key, session_state, cache, pc, uploaded_file, temp_path,
                   vector_store, query, display, calls, at_start, call, ret>>

\* lines 57-76 in a run of another session: its build returns and is stored in
\* the cache, which is the process's (a build that raises there changes nothing)
OtherSessionBuild ==
    /\ \E p \in others \ DOMAIN cache :
        cache' = CacheStore(cache, p, "ok", BuiltIndex(files[p]))
    /\ UNCHANGED <<env_key, session_state, files, pc, uploaded_file, temp_path,
                   vector_store, query, display, calls, at_start, others, call, ret>>

Next ==
    \/ ScriptStart
    \/ KeyGuard
    \/ SaveTemp
    \/ CallProcessPdf
    \/ ProcessPdf
    \/ ChatInput
    \/ UserMessage
    \/ CallAnalyzeQuery
    \/ Assistant
    \/ OtherSessionKey
    \/ OtherSessionSave
    \/ OtherSessionBuild

Spec == Init /\ [][Next]_vars

----------------------------------------------------------------------------
(* calculate_deadline (lines 39-47), over strings as character sequences *)

\* the ASCII digits: what [0-9] matches and what strftime writes
DigitChars == <<"0", "1", "2", "3", "4", "5", "6", "7", "8", "9">>

\* the decimal digits of Unicode (category Nd, Unicode 14.0.0), one row per
\* script, each row in the order of the digits' values 0..9
DigitBlocks ==
    <<
       <<"0", "1", "2", "3", "4", "5", "6", "7", "8", "9">>,
       <<"U+0660", "U+0661", "U+0662", "U+0663", "U+0664", "U+0665", "U+0666", "U+0667", "U+0668", "U+0669">>,
       <<"U+06F0", "U+06F1", "U+06F2", "U+06F3", "U+06F4", "U+06F5", "U+06F6", "U+06F7", "U+06F8", "U+06F9">>,
       <<"U+07C0", "U+07C1", "U+07C2", "U+07C3", "U+07C4", "U+07C5", "U+07C6", "U+07C7", "U+07C8", "U+07C9">>,
       <<"U+0966", "U+0967", "U+0968", "U+0969", "U+096A", "U+096B", "U+096C", "U+096D", "U+096E", "U+096F">>,
       <<"U+09E6", "U+09E7", "U+09E8", "U+09E9", "U+09EA", "U+09EB", "U+09EC", "U+09ED", "U+09EE", "U+09EF">>,
       <<"U+0A66", "U+0A67", "U+0A68", "U+0A69", "U+0A6A", "U+0A6B", "U+0A6C", "U+0A6D", "U+0A6E", "U+0A6F">>,
       <<"U+0AE6", "U+0AE7", "U+0AE8", "U+0AE9", "U+0AEA", "U+0AEB", "U+0AEC", "U+0AED", "U+0AEE", "U+0AEF">>,
       <<"U+0B66", "U+0B67", "U+0B68", "U+0B69", "U+0B6A", "U+0B6B", "U+0B6C", "U+0B6D", "U+0B6E", "U+0B6F">>,
       <<"U+0BE6", "U+0BE7", "U+0BE8", "U+0BE9", "U+0BEA", "U+0BEB", "U+0BEC", "U+0BED", "U+0BEE", "U+0BEF">>,
       <<"U+0C66", "U+0C67", "U+0C68", "U+0C69", "U+0C6A", "U+0C6B", "U+0C6C", "U+0C6D", "U+0C6E", "U+0C6F">>,
       <<"U+0CE6", "U+0CE7", "U+0CE8", "U+0CE9", "U+0CEA", "U+0CEB", "U+0CEC", "U+0CED", "U+0CEE", "U+0CEF">>,
       <<"U+0D66", "U+0D67", "U+0D68", "U+0D69", "U+0D6A", "U+0D6B", "U+0D6C", "U+0D6D", "U+0D6E", "U+0D6F">>,
       <<"U+0DE6", "U+0DE7", "U+0DE8", "U+0DE9", "U+0DEA", "U+0DEB", "U+0DEC", "U+0DED", "U+0DEE", "U+0DEF">>,
       <<"U+0E50", "U+0E51", "U+0E52", "U+0E53", "U+0E54", "U+0E55", "U+0E56", "U+0E57", "U+0E58", "U+0E59">>,
       <<"U+0ED0", "U+0ED1", "U+0ED2", "U+0ED3", "U+0ED4", "U+0ED5", "U+0ED6", "U+0ED7", "U+0ED8", "U+0ED9">>,
       <<"U+0F20", "U+0F21", "U+0F22", "U+0F23", "U+0F24", "U+0F25", "U+0F26", "U+0F27", "U+0F28", "U+0F29">>,
       <<"U+1040", "U+1041", "U+1042", "U+1043", "U+1044", "U+1045", "U+1046", "U+1047", "U+1048", "U+1049">>,
       <<"U+1090", "U+1091", "U+1092", "U+1093", "U+1094", "U+1095", "U+1096", "U+1097", "U+1098", "U+1099">>,
       <<"U+17E0", "U+17E1", "U+17E2", "U+17E3", "U+17E4", "U+17E5", "U+17E6", "U+17E7", "U+17E8", "U+17E9">>,
       <<"U+1810", "U+1811", "U+1812", "U+1813", "U+1814", "U+1815", "U+1816", "U+1817", "U+1818", "U+1819">>,
       <<"U+1946", "U+1947", "U+1948", "U+1949", "U+194A", "U+194B", "U+194C", "U+194D", "U+194E", "U+194F">>,
       <<"U+19D0", "U+19D1", "U+19D2", "U+19D3", "U+19D4", "U+19D5", "U+19D6", "U+19D7", "U+19D8", "U+19D9">>,
       <<"U+1A80", "U+1A81", "U+1A82", "U+1A83", "U+1A84", "U+1A85", "U+1A86", "U+1A87", "U+1A88", "U+1A89">>,
       <<"U+1A90", "U+1A91", "U+1A92", "U+1A93", "U+1A94", "U+1A95", "U+1A96", "U+1A97", "U+1A98", "U+1A99">>,
       <<"U+1B50", "U+1B51", "U+1B52", "U+1B53", "U+1B54", "U+1B55", "U+1B56", "U+1B57", "U+1B58", "U+1B59">>,
       <<"U+1BB0", "U+1BB1", "U+1BB2", "U+1BB3", "U+1BB4", "U+1BB5", "U+1BB6", "U+1BB7", "U+1BB8", "U+1BB9">>,
       <<"U+1C40", "U+1C41", "U+1C42", "U+1C43", "U+1C44", "U+1C45", "U+1C46", "U+1C47", "U+1C48", "U+1C49">>,
       <<"U+1C50", "U+1C51", "U+1C52", "U+1C53", "U+1C54", "U+1C55", "U+1C56", "U+1C57", "U+1C58", "U+1C59">>,
       <<"U+A620", "U+A621", "U+A622", "U+A623", "U+A624", "U+A625", "U+A626", "U+A627", "U+A628", "U+A629">>,
       <<"U+A8D0", "U+A8D1", "U+A8D2", "U+A8D3", "U+A8D4", "U+A8D5", "U+A8D6", "U+A8D7", "U+A8D8", "U+A8D9">>,
       <<"U+A900", "U+A901", "U+A902", "U+A903", "U+A904", "U+A905", "U+A906", "U+A907", "U+A908", "U+A909">>,
       <<"U+A9D0", "U+A9D1", "U+A9D2", "U+A9D3", "U+A9D4", "U+A9D5", "U+A9D6", "U+A9D7", "U+A9D8", "U+A9D9">>,
       <<"U+A9F0", "U+A9F1", "U+A9F2", "U+A9F3", "U+A9F4", "U+A9F5", "U+A9F6", "U+A9F7", "U+A9F8", "U+A9F9">>,
       <<"U+AA50", "U+AA51", "U+AA52", "U+AA53", "U+AA54", "U+AA55", "U+AA56", "U+AA57", "U+AA58", "U+AA59">>,
       <<"U+ABF0", "U+ABF1", "U+ABF2", "U+ABF3", "U+ABF4", "U+ABF5", "U+ABF6", "U+ABF7", "U+ABF8", "U+ABF9">>,
       <<"U+FF10", "U+FF11", "U+FF12", "U+FF13", "U+FF14", "U+FF15", "U+FF16", "U+FF17", "U+FF18", "U+FF19">>,
       <<"U+104A0", "U+104A1", "U+104A2", "U+104A3", "U+104A4", "U+104A5", "U+104A6", "U+104A7", "U+104A8", "U+104A9">>,
       <<"U+10D30", "U+10D31", "U+10D32", "U+10D33", "U+10D34", "U+10D35", "U+10D36", "U+10D37", "U+10D38", "U+10D39">>,
       <<"U+11066", "U+11067", "U+11068", "U+11069", "U+1106A", "U+1106B", "U+1106C", "U+1106D", "U+1106E", "U+1106F">>,
       <<"U+110F0", "U+110F1", "U+110F2", "U+110F3", "U+110F4", "U+110F5", "U+110F6", "U+110F7", "U+110F8", "U+110F9">>,
       <<"U+11136", "U+11137", "U+11138", "U+11139", "U+1113A", "U+1113B", "U+1113C", "U+1113D", "U+1113E", "U+1113F">>,
       <<"U+111D0", "U+111D1", "U+111D2", "U+111D3", "U+111D4", "U+111D5", "U+111D6", "U+111D7", "U+111D8", "U+111D9">>,
       <<"U+112F0", "U+112F1", "U+112F2", "U+112F3", "U+112F4", "U+112F5", "U+112F6", "U+112F7", "U+112F8", "U+112F9">>,
       <<"U+11450", "U+11451", "U+11452", "U+11453", "U+11454", "U+11455", "U+11456", "U+11457", "U+11458", "U+11459">>,
       <<"U+114D0", "U+114D1", "U+114D2", "U+114D3", "U+114D4", "U+114D5", "U+114D6", "U+114D7", "U+114D8", "U+114D9">>,
       <<"U+11650", "U+11651", "U+11652", "U+11653", "U+11654", "U+11655", "U+11656", "U+11657", "U+11658", "U+11659">>,
       <<"U+116C0", "U+116C1", "U+116C2", "U+116C3", "U+116C4", "U+116C5", "U+116C6", "U+116C7", "U+116C8", "U+116C9">>,
       <<"U+11730", "U+11731", "U+11732", "U+11733", "U+11734", "U+11735", "U+11736", "U+11737", "U+11738", "U+11739">>,
       <<"U+118E0", "U+118E1", "U+118E2", "U+118E3", "U+118E4", "U+118E5", "U+118E6", "U+118E7", "U+118E8", "U+118E9">>,
       <<"U+11950", "U+11951", "U+11952", "U+11953", "U+11954", "U+11955", "U+11956", "U+11957", "U+11958", "U+11959">>,
       <<"U+11C50", "U+11C51", "U+11C52", "U+11C53", "U+11C54", "U+11C55", "U+11C56", "U+11C57", "U+11C58", "U+11C59">>,
       <<"U+11D50", "U+11D51", "U+11D52", "U+11D53", "U+11D54", "U+11D55", "U+11D56", "U+11D57", "U+11D58", "U+11D59">>,
       <<"U+11DA0", "U+11DA1", "U+11DA2", "U+11DA3", "U+11DA4", "U+11DA5", "U+11DA6", "U+11DA7", "U+11DA8", "U+11DA9">>,
       <<"U+16A60", "U+16A61", "U+16A62", "U+16A63", "U+16A64", "U+16A65", "U+16A66", "U+16A67", "U+16A68", "U+16A69">>,
       <<"U+16AC0", "U+16AC1", "U+16AC2", "U+16AC3", "U+16AC4", "U+16AC5", "U+16AC6", "U+16AC7", "U+16AC8", "U+16AC9">>,
       <<"U+16B50", "U+16B51", "U+16B52", "U+16B53", "U+16B54", "U+16B55", "U+16B56", "U+16B57", "U+16B58", "U+16B59">>,
       <<"U+1D7CE", "U+1D7CF", "U+1D7D0", "U+1D7D1", "U+1D7D2", "U+1D7D3", "U+1D7D4", "U+1D7D5", "U+1D7D6", "U+1D7D7">>,
       <<"U+1D7D8", "U+1D7D9", "U+1D7DA", "U+1D7DB", "U+1D7DC", "U+1D7DD", "U+1D7DE", "U+1D7DF", "U+1D7E0", "U+1D7E1">>,
       <<"U+1D7E2", "U+1D7E3", "U+1D7E4", "U+1D7E5", "U+1D7E6", "U+1D7E7", "U+1D7E8", "U+1D7E9", "U+1D7EA", "U+1D7EB">>,
       <<"U+1D7EC", "U+1D7ED", "U+1D7EE", "U+1D7EF", "U+1D7F0", "U+1D7F1", "U+1D7F2", "U+1D7F3", "U+1D7F4", "U+1D7F5">>,
       <<"U+1D7F6", "U+1D7F7", "U+1D7F8", "U+1D7F9", "U+1D7FA", "U+1D7FB", "U+1D7FC", "U+1D7FD", "U+1D7FE", "U+1D7FF">>,
       <<"U+1E140", "U+1E141", "U+1E142", "U+1E143", "U+1E144", "U+1E145", "U+1E146", "U+1E147", "U+1E148", "U+1E149">>,
       <<"U+1E2F0", "U+1E2F1", "U+1E2F2", "U+1E2F3", "U+1E2F4", "U+1E2F5", "U+1E2F6", "U+1E2F7", "U+1E2F8", "U+1E2F9">>,
       <<"U+1E950", "U+1E951", "U+1E952", "U+1E953", "U+1E954", "U+1E955", "U+1E956", "U+1E957", "U+1E958", "U+1E959">>,
       <<"U+1FBF0", "U+1FBF1", "U+1FBF2", "U+1FBF3", "U+1FBF4", "U+1FBF5", "U+1FBF6", "U+1FBF7", "U+1FBF8", "U+1FBF9">>
    >>

UnicodeDigits == UNION {Range(DigitBlocks[b]) : b \in 1..Len(DigitBlocks)}

\* \d in a str pattern: every Unicode decimal digit
IsDigit(c) == c \in UnicodeDigits

\* int() of one digit
DigitVal(c) ==
    CHOOSE v \in 0..9 : \E b \in 1..Len(DigitBlocks) : DigitBlocks[b][v + 1] = c

DigitChar(n) == DigitChars[n + 1]

\* the character at 1-based position i, "EOS" past either end
At(s, i) == IF 1 <= i /\ i <= Len(s) THEN s[i] ELSE "EOS"

\* [1-9]
NonZeroDigit(c) == c \in Range(DigitChars) /\ c # "0"

Matched(val, next) == [val |-> val, next |-> next]

\* strptime's %Y is (?P<Y>\d\d\d\d)
MatchY(s, i) ==
    IF \A k \in 0..3 : IsDigit(At(s, i + k))
    THEN <<Matched(1000 * DigitVal(s[i]) + 100 * DigitVal(s[i + 1])
                   + 10 * DigitVal(s[i + 2]) + DigitVal(s[i + 3]), i + 4)>>
    ELSE <<>>

\* strptime's %m is (?P<m>1[0-2]|0[1-9]|[1-9]): the alternatives matching at i,
\* in the order the regex tries them
MatchM(s, i) ==
    (IF At(s, i) = "1" /\ At(s, i + 1) \in {"0", "1", "2"}
     THEN <<Matched(10 + DigitVal(s[i + 1]), i + 2)>> ELSE <<>>)
    \o (IF At(s, i) = "0" /\ NonZeroDigit(At(s, i + 1))
        THEN <<Matched(DigitVal(s[i + 1]), i + 2)>> ELSE <<>>)
    \o (IF NonZeroDigit(At(s, i))
        THEN <<Matched(DigitVal(s[i]), i + 1)>> ELSE <<>>)

\* strptime's %d is (?P<d>3[0-1]|[1-2]\d|0[1-9]|[1-9]| [1-9])
MatchD(s, i) ==
    (IF At(s, i) = "3" /\ At(s, i + 1) \in {"0", "1"}
     THEN <<Matched(30 + DigitVal(s[i + 1]), i + 2)>> ELSE <<>>)
    \o (IF At(s, i) \in {"1", "2"} /\ IsDigit(At(s, i + 1))
        THEN <<Matched(10 * DigitVal(s[i]) + DigitVal(s[i + 1]), i + 2)>> ELSE <<>>)
    \o (IF At(s, i) = "0" /\ NonZeroDigit(At(s, i + 1))
        THEN <<Matched(DigitVal(s[i + 1]), i + 2)>> ELSE <<>>)
    \o (IF NonZeroDigit(At(s, i))
        THEN <<Matched(DigitVal(s[i]), i + 1)>> ELSE <<>>)
    \o (IF At(s, i) = " " /\ NonZeroDigit(At(s, i + 1))
        THEN <<Matched(DigitVal(s[i + 1]), i + 2)>> ELSE <<>>)

IsLeap(y) == y % 4 = 0 /\ (y % 100 # 0 \/ y % 400 = 0)

DaysInMonthTable == <<31, 28, 31, 30, 31, 30, 31, 31, 30, 31, 30, 31>>

DaysInMonth(y, m) == IF m = 2 /\ IsLeap(y) THEN 29 ELSE DaysInMonthTable[m]

NoDate == [ok |-> FALSE, year |-> 0, month |-> 0, day |-> 0]

\* line 43: datetime.strptime(start_date_str, "%Y-%m-%d"): the format's regex is
\* matched at the start of the string, must consume all of it, and the fields
\* must name a date of the calendar (years 1..9999); otherwise ValueError
strptime(s) ==
    LET ys == MatchY(s, 1)
        ms == IF ys = <<>> \/ At(s, 5) # "-" THEN <<>>
              ELSE SelectSeq(MatchM(s, 6),
                             LAMBDA m : At(s, m.next) = "-"
                                        /\ MatchD(s, m.next + 1) # <<>>)
    IN  IF ms = <<>> THEN NoDate
        ELSE LET y == Head(ys).val
                 m == Head(ms).val
                 d == Head(MatchD(s, Head(ms).next + 1))
             IN  IF d.next # Len(s) + 1 THEN NoDate
                 ELSE IF y < 1 \/ d.val > DaysInMonth(y, m) THEN NoDate
                 ELSE [ok |-> TRUE, year |-> y, month |-> m, day |-> d.val]

DaysBeforeYear(y) ==
    (y - 1) * 365 + (y - 1) \div 4 - (y - 1) \div 100 + (y - 1) \div 400

RECURSIVE DaysBeforeMonth(_, _)
DaysBeforeMonth(y, m) ==
    IF m = 1 THEN 0 ELSE DaysBeforeMonth(y, m - 1) + DaysInMonth(y, m - 1)

\* date.toordinal(): 0001-01-01 is day 1
YmdToOrd(y, m, d) == DaysBeforeYear(y) + DaysBeforeMonth(y, m) + d

DI4Y == 4 * 365 + 1

DI100Y == 25 * DI4Y - 1

DI400Y == 4 * DI100Y + 1

MaxOrdinal == YmdToOrd(9999, 12, 31)

\* the largest magnitude of timedelta(days=...)
MaxDeltaDays == 10^9 - 1

RECURSIVE MonthOfYearDay(_, _, _)
MonthOfYearDay(y, m, n) ==
    IF n < DaysInMonth(y, m) THEN [month |-> m, day |-> n + 1]
    ELSE MonthOfYearDay(y, m + 1, n - DaysInMonth(y, m))

\* date.fromordinal(n), by the 400/100/4/1-year cycles
OrdToYmd(ord) ==
    LET n0   == ord - 1
        n400 == n0 \div DI400Y
        r400 == n0 % DI400Y
        n100 == r400 \div DI100Y
        r100 == r400 % DI100Y
        n4   == r100 \div DI4Y
        r4   == r100 % DI4Y
        n1   == r4 \div 365
        r1   == r4 % 365
        y    == n400 * 400 + n100 * 100 + n4 * 4 + n1 + 1
    IN  IF n1 = 4 \/ n100 = 4
        THEN [year |-> y - 1, month |-> 12, day |-> 31]
        ELSE LET md == MonthOfYearDay(y, 1, r1)
             IN  [year |-> y, month |-> md.month, day |-> md.day]

RECURSIVE Decimal(_)
Decimal(n) == IF n < 10 THEN <<DigitChar(n)>> ELSE Append(Decimal(n \div 10), DigitChar(n % 10))

RECURSIVE ZeroPad(_, _)
ZeroPad(n, width) ==
    IF width <= 1 THEN Decimal(n)
    ELSE ZeroPad(n \div 10, width - 1) \o <<DigitChar(n % 10)>>

\* line 45: strftime("%Y-%m-%d"): %m and %d are two digits; %Y is the C library's,
\* which pads a year below 1000 to four digits on some platforms and not on others
strftime(date, libc_pads_year) ==
    (IF libc_pads_year THEN ZeroPad(date.year, 4) ELSE Decimal(date.year))
    \o <<"-">> \o ZeroPad(date.month, 2) \o <<"-">> \o ZeroPad(date.day, 2)

Returned(value) == [kind |-> "return", value |-> value]

Raised(exception) == [kind |-> "raise", value |-> <<exception>>]

FormatError == <<"Error: Use YYYY-MM-DD format.">>

\* lines 40-47; only ValueError is caught
calculate_deadline(start_date_str, days, libc_pads_year) ==
    LET start_date == strptime(start_date_str) IN
    IF ~start_date.ok THEN Returned(FormatError)
    ELSE IF days > MaxDeltaDays \/ days < -MaxDeltaDays
         THEN Raised("OverflowError")
    ELSE LET deadline == YmdToOrd(start_date.year, start_date.month, start_date.day) + days
         IN  IF deadline < 1 \/ deadline > MaxOrdinal
             THEN Raised("OverflowError")
             ELSE Returned(strftime(OrdToYmd(deadline), libc_pads_year))

----------------------------------------------------------------------------
(* extract_monetary_values (lines 49-53) *)

\* line 52: the alternatives of the pattern's only capturing group, in order, as
\* the source file spells them: the third and the fifth are the character
\* sequences U+201A U+00C7 U+00A8 and U+00AC U+00A3
CurrencyMarkers ==
    << <<"$">>, <<"U", "S", "D">>, <<"U+201A", "U+00C7", "U+00A8">>,
       <<"E", "U", "R">>, <<"U+00AC", "U+00A3">> >>

\* \s in a str pattern: the ASCII and the other Unicode whitespace
Whitespace ==
    { "\t", "\n", "U+000B", "\f", "\r", "U+001C", "U+001D", "U+001E",
      "U+001F", " ", "U+0085", "U+00A0", "U+1680", "U+2000", "U+2001",
      "U+2002", "U+2003", "U+2004", "U+2005", "U+2006", "U+2007", "U+2008",
      "U+2009", "U+200A", "U+2028", "U+2029", "U+202F", "U+205F", "U+3000" }

StartsWith(text, i, word) == \A k \in 1..Len(word) : At(text, i + k - 1) = word[k]

\* \d{1,3}, greedy: how many digits it takes at i
DigitRun(text, i) ==
    IF ~IsDigit(At(text, i)) THEN 0
    ELSE IF ~IsDigit(At(text, i + 1)) THEN 1
    ELSE IF ~IsDigit(At(text, i + 2)) THEN 2 ELSE 3

\* (?:,\d{3})*, greedy: the position after its last repetition
RECURSIVE ThousandsEnd(_, _)
ThousandsEnd(text, i) ==
    IF At(text, i) = "," /\ \A k \in 1..3 : IsDigit(At(text, i + k))
    THEN ThousandsEnd(text, i + 4) ELSE i

\* (?:\.\d{2})?
CentsEnd(text, i) ==
    IF At(text, i) = "." /\ IsDigit(At(text, i + 1)) /\ IsDigit(At(text, i + 2))
    THEN i + 3 ELSE i

NoMatch == 0

\* \s?\d{1,3}(?:,\d{3})*(?:\.\d{2})? at i: the position after the match, NoMatch
\* when it does not match
AmountEnd(text, i) ==
    LET j == IF At(text, i) \in Whitespace THEN i + 1 ELSE i
        n == DigitRun(text, j)
    IN  IF n = 0 THEN NoMatch ELSE CentsEnd(text, ThousandsEnd(text, j + n))

\* the matches of the whole pattern that start at i, by alternative of the group
MatchAt(markers, text, i) ==
    LET hit(k) == StartsWith(text, i, markers[k])
                  /\ AmountEnd(text, i + Len(markers[k])) # NoMatch
        ks == {k \in 1..Len(markers) : hit(k)}
    IN  IF ks = {} THEN <<>>
        ELSE LET k == CHOOSE x \in ks : \A z \in ks : x <= z
             IN  <<[start |-> i, group1 |-> markers[k],
                    end |-> AmountEnd(text, i + Len(markers[k]))]>>

\* the scan of re.findall / re.finditer: leftmost matches, not overlapping
RECURSIVE Scan(_, _, _)
Scan(markers, text, i) ==
    IF i > Len(text) THEN <<>>
    ELSE LET m == MatchAt(markers, text, i)
         IN  IF m = <<>> THEN Scan(markers, text, i + 1)
             ELSE m \o Scan(markers, text, m[1].end)

\* line 53: re.findall of a pattern with one capturing group returns, for every
\* match, what the group captured
extract_monetary_values(text) ==
    LET ms == Scan(CurrencyMarkers, text, 1)
    IN  [k \in 1..Len(ms) |-> ms[k].group1]

----------------------------------------------------------------------------
(* The tools and the formatter evaluated on their own *)

\* a state in which only the function named in the call remains to be evaluated
Harness(c) ==
    /\ env_key = TRUE
    /\ session_state = <<>>
    /\ cache = <<>>
    /\ files = <<>>
    /\ pc = "tool"
    /\ uploaded_file = None
    /\ temp_path = NoPath
    /\ vector_store = NoIndex
    /\ query = None
    /\ display = <<>>
    /\ calls = <<>>
    /\ at_start = [messages |-> <<>>, prev_doc |-> None, prev_ok |-> FALSE,
                   prev_failed |-> FALSE]
    /\ others = {}
    /\ call = c
    /\ ret = IdleRet

YearStrings ==
    { ZeroPad(2024, 4), ZeroPad(2023, 4), ZeroPad(9999, 4), ZeroPad(1, 4),
      ZeroPad(0, 4), ZeroPad(999, 4), ZeroPad(202, 3),
      <<"U+FF12", "U+FF10", "U+FF12", "U+FF14">> }

MonthStrings ==
    { ZeroPad(1, 2), ZeroPad(1, 1), ZeroPad(2, 2), ZeroPad(12, 2), ZeroPad(13, 2),
      ZeroPad(0, 2) }

DayStrings ==
    { ZeroPad(1, 2), ZeroPad(1, 1), ZeroPad(28, 2), ZeroPad(29, 2), ZeroPad(31, 2),
      ZeroPad(32, 2), <<" ", "1">>, <<"3", "1", "x">>, <<"1", "U+0663">> }

DateStrings ==
    { y \o <<sep>> \o m \o <<"-">> \o d :
        y \in YearStrings, sep \in {"-", "/"}, m \in MonthStrings, d \in DayStrings }

DayCounts == {-366, -1, 0, 1, 30, 366, 10^9}

InitDeadline ==
    \E s \in DateStrings, n \in DayCounts, pads \in BOOLEAN :
        Harness([fn |-> "calculate_deadline", start_date_str |-> s, days |-> n,
                 libc_pads_year |-> pads])

CallCalculateDeadline ==
    /\ pc = "tool"
    /\ call.fn = "calculate_deadline"
    /\ ret' = calculate_deadline(call.start_date_str, call.days, call.libc_pads_year)
    /\ pc' = "tool_done"
    /\ UNCHANGED <<env_key, session_state, cache, files, uploaded_file, temp_path,
                   vector_store, query, display, calls, at_start, others, call>>

SpecDeadline == InitDeadline /\ [][CallCalculateDeadline]_vars

\* how many pieces a text given to extract_monetary_values is made of
MaxPieces == 4

MoneyPieces ==
    { <<"$">>, <<"U", "S", "D">>, <<"E", "U", "R">>, <<"U+20AC">>, <<"U+00A3">>,
      <<"U+201A", "U+00C7", "U+00A8">>, <<" ">>, <<"2">>, <<"1", "2", "3">>,
      <<",", "5", "0", "0">>, <<".", "0", "0">>, <<"x">>, <<"U+00A0">>,
      <<"U+FF15">> }

MoneyTexts ==
    { Flatten(ps) : ps \in UNION { [1..n -> MoneyPieces] : n \in 0..MaxPieces } }

InitMoney ==
    \E t \in MoneyTexts : Harness([fn |-> "extract_monetary_values", text |-> t])

CallExtractMonetaryValues ==
    /\ pc = "tool"
    /\ call.fn = "extract_monetary_values"
    /\ ret' = Returned(extract_monetary_values(call.text))
    /\ pc' = "tool_done"
    /\ UNCHANGED <<env_key, session_state, cache, files, uploaded_file, temp_path,
                   vector_store, query, display, calls, at_start, others, call>>

SpecMoney == InitMoney /\ [][CallExtractMonetaryValues]_vars

SeqsUpTo(S, n) == UNION { [1..k -> S] : k \in 0..n }

RenderResponses ==
    { LegalResponse(sm, ob, rk, cl) :
        sm \in {"sum1"},
        ob \in SeqsUpTo({"ob1", "ob2"}, MaxItems),
        rk \in SeqsUpTo({"risk1", "ob1"}, MaxItems),
        cl \in SeqsUpTo({ClauseReference("Clause 1", "text1"),
                         ClauseReference("Clause 2", "ob1")}, MaxItems) }

InitRender ==
    \E r \in RenderResponses : Harness([fn |-> "render", response |-> r])

\* lines 159-173 on their own
Render ==
    /\ pc = "tool"
    /\ call.fn = "render"
    /\ ret' = [kind |-> "return", value |-> FormatOutput(call.response),
               evidence |-> Evidence(call.response)]
    /\ pc' = "tool_done"
    /\ UNCHANGED <<env_key, session_state, cache, files, uploaded_file, temp_path,
                   vector_store, query, display, calls, at_start, others, call>>

SpecRender == InitRender /\ [][Render]_vars

----------------------------------------------------------------------------
(* Claims about the script run *)

ProcessPdfCalled == "process_pdf" \in Range(calls)

BodyRan == Range(BuildStages) \cap Range(calls) # {}

BuildReturned == "returned" \in Range(calls)

BuildRaised == "raised" \in Range(calls)

QueryAnswered == "ok" \in Range(calls)

QueryRaised == {"raise_analyze", "raise_format"} \cap Range(calls) # {}

RunAbandoned == Rerun \in Range(calls)

\* what follows "analyze_query" in calls
QueryOutcome ==
    CHOOSE kind \in {"ok", "raise_analyze", "raise_format", "none"} :
        \/ kind \in Range(calls)
        \/ kind = "none" /\ ~QueryAnswered /\ ~QueryRaised

ErrorShown == display # <<>> /\ Last(display).w = "error"

SameFileAsProcessedBefore ==
    at_start.prev_ok /\ at_start.prev_doc = uploaded_file

\* C1: when a run processes the same uploaded file that the previous run
\* processed successfully, process_pdf's body (load, chunk, embed, index) is not
\* executed again: the cached index is reused.
C1_SecondRunReusesIndex ==
    (ProcessPdfCalled /\ SameFileAsProcessedBefore) => ~BodyRan

\* C2: the index a run holds, and so the one any query of the run is answered
\* from, was built completely from the document uploaded in that run; a run whose
\* upload differs from the previous run's, and that gets an index from
\* process_pdf, has executed the build for its own upload.
C2_IndexIsOfCurrentUpload ==
    /\ vector_store # NoIndex =>
          vector_store.doc = uploaded_file /\ vector_store.complete
    /\ "analyze_query" \in Range(calls) =>
          vector_store # NoIndex /\ vector_store.doc = uploaded_file
    /\ (BuildReturned /\ at_start.prev_doc # uploaded_file) =>
          /\ BodyRan
          /\ temp_path \in DOMAIN cache
          /\ cache[temp_path].doc = uploaded_file

C2_Witness ==
    /\ QueryAnswered
    /\ at_start.prev_ok
    /\ at_start.prev_doc # uploaded_file

\* C3: while no OPENAI_API_KEY is present (neither in the environment nor entered
\* in the sidebar) a run halts at the guard: no temp file is written, process_pdf
\* is not called, no query is read, and the run shows at most the warning.
C3_NoKeyNoDocumentWork ==
    ~env_key =>
        /\ pc \in {"idle", "guard"}
        /\ Range(calls) \subseteq {Rerun}
        /\ files = <<>> /\ cache = <<>> /\ Messages = <<>>
        /\ display \in {<<>>, <<Shown("warning", <<"enter key">>)>>}

C3_Witness ==
    /\ ~env_key
    /\ uploaded_file # None
    /\ pc = "idle"
    /\ display = <<Shown("warning", <<"enter key">>)>>

\* C4: a build that raised, in whatever stage, leaves nothing in the cache under
\* its key, and every index in the cache is a complete index of the file stored
\* under its key.
C4_FailedBuildNotCached ==
    /\ BuildRaised => temp_path \notin DOMAIN cache
    /\ \A p \in DOMAIN cache :
          p \in DOMAIN files /\ cache[p] = BuiltIndex(files[p])

C4_Witness ==
    /\ BuildRaised
    /\ "embed" \in Range(calls)
    /\ cache # <<>>

\* C5 as stated: whenever process_pdf raises, the error is reported and the run
\* stops: the chat input is not read, analyze_query is not called and the history
\* is the one the run started with.
C5_BuildErrorAlwaysReported ==
    BuildRaised =>
        /\ pc = "idle"
        /\ ErrorShown
        /\ "chat_input" \notin Range(calls)
        /\ "analyze_query" \notin Range(calls)
        /\ Messages = at_start.messages

\* C5, amended: whenever process_pdf raises, the run stops there: the chat input
\* is not read, analyze_query is not called, the run holds no index and the
\* history is the one the run started with; the error is reported unless the run
\* was abandoned for a rerun before st.error showed it.
C5_BuildErrorAbortsRun ==
    BuildRaised =>
        /\ pc = "idle"
        /\ vector_store = NoIndex
        /\ "chat_input" \notin Range(calls)
        /\ "analyze_query" \notin Range(calls)
        /\ Messages = at_start.messages
        /\ ~RunAbandoned => ErrorShown
        /\ display = <<>> \/ (Len(display) = 1 /\ ErrorShown)

C5_Witness ==
    /\ BuildRaised
    /\ ~RunAbandoned
    /\ ErrorShown
    /\ Len(at_start.messages) > 0

UserEntryAdded ==
    Messages = Append(at_start.messages, Message("user", <<query>>))

BothEntriesAdded ==
    /\ Len(Messages) = Len(at_start.messages) + 2
    /\ SubSeq(Messages, 1, Len(Messages) - 1)
         = Append(at_start.messages, Message("user", <<query>>))
    /\ Last(Messages).role = "assistant"

\* C6 as stated: a step in which the processing of a query raises reports the
\* error, ends the run normally, and changes neither the cache nor any history
\* entry.
C6_QueryErrorAlwaysReported ==
    [][(pc = "assistant" /\ QueryRaised')
        => /\ ErrorShown'
           /\ pc' = "idle"
           /\ cache' = cache
           /\ Messages' = Messages]_vars

\* C6, amended: a step in which the processing of a query raises ends the run
\* (the session waits for the next rerun) and changes neither the cache nor any
\* history entry; it reports the error unless the run was abandoned for a rerun
\* before st.error showed it, and then it shows nothing. In the run after one
\* whose query raised and was reported, a query that is answered and rendered to
\* the end is shown and stored as any other.
C6_QueryErrorIsolated ==
    /\ [][(pc = "assistant" /\ QueryRaised')
        => /\ pc' = "idle"
           /\ cache' = cache
           /\ Messages' = Messages
           /\ IsPrefix(at_start.messages, Messages')
           /\ \/ display' = Append(display,
                               Shown("error", <<"An error occurred", QueryOutcome'>>))
              \/ RunAbandoned' /\ display' = display]_vars
    /\ [][(at_start.prev_failed /\ pc = "assistant" /\ pc' = "idle"
             /\ QueryAnswered' /\ ~RunAbandoned')
            => /\ BothEntriesAdded'
               /\ Last(display').w \in {"chat_message.assistant", "expander.markdown"}
               /\ cache' = cache]_vars

\* the run after one whose query raised and was reported by st.error: its query
\* is answered, shown and stored behind the failed query's entry
C6_Witness ==
    /\ at_start.prev_failed
    /\ QueryAnswered
    /\ ~RunAbandoned
    /\ BothEntriesAdded
    /\ at_start.messages # <<>>
    /\ Last(at_start.messages).role = "user"

HistoryWellFormed ==
    \A i \in 1..Len(Messages) :
        Messages[i].role = "assistant" =>
            i > 1 /\ Messages[i - 1].role = "user"

\* C10 as stated: every assistant entry directly follows a user entry; a query
\* that was answered has added its user entry and then one assistant entry, a
\* query that failed its user entry alone.
C10_AnsweredQueryRecorded ==
    /\ HistoryWellFormed
    /\ QueryAnswered => BothEntriesAdded
    /\ QueryRaised => UserEntryAdded

FinishedQueryShape ==
    /\ QueryAnswered => BothEntriesAdded \/ (RunAbandoned /\ UserEntryAdded)
    /\ QueryRaised => UserEntryAdded
    /\ ("analyze_query" \in Range(calls) /\ QueryOutcome = "none") => UserEntryAdded
    /\ "analyze_query" \notin Range(calls) =>
          Messages = at_start.messages \/ (query # None /\ UserEntryAdded)

\* C10, amended: the history only grows at its end, one entry per step; every
\* assistant entry directly follows a user entry; a query that was answered and
\* rendered to the end has added its user entry and then one assistant entry; a
\* query that failed, or whose run was abandoned for a rerun after its user entry
\* was stored and before the answer's entry was, has added its user entry alone.
C10_HistoryAppendOnly ==
    /\ [](HistoryWellFormed /\ FinishedQueryShape)
    /\ [][IsPrefix(Messages, Messages') /\ Len(Messages') <= Len(Messages) + 1]_vars

\* an answered query recorded after a query that left its user entry alone
C10_Witness ==
    /\ QueryAnswered
    /\ ~RunAbandoned
    /\ BothEntriesAdded
    /\ Len(at_start.messages) = 1
    /\ \E r \in AppResponses :
          r.obligations # <<>> /\ Last(Messages).content = FormatOutput(r)

----------------------------------------------------------------------------
(* Claims about the tools and the rendering *)

DigitsAt(s, positions) == \A i \in positions : At(s, i) \in Range(DigitChars)

TwoDigits(s, i) == 10 * DigitVal(s[i]) + DigitVal(s[i + 1])

\* the date a string in the form YYYY-MM-DD names
IsoFields(s) ==
    [year |-> 100 * TwoDigits(s, 1) + TwoDigits(s, 3),
     month |-> TwoDigits(s, 6), day |-> TwoDigits(s, 9)]

\* s is YYYY-MM-DD and names a date of the calendar
IsoValid(s) ==
    /\ Len(s) = 10
    /\ DigitsAt(s, {1, 2, 3, 4, 6, 7, 9, 10})
    /\ s[5] = "-" /\ s[8] = "-"
    /\ LET f == IsoFields(s) IN
        /\ f.year >= 1
        /\ f.month \in 1..12
        /\ f.day \in 1..DaysInMonth(f.year, f.month)

NextDay(date) ==
    IF date.day < DaysInMonth(date.year, date.month)
    THEN [date EXCEPT !.day = @ + 1]
    ELSE IF date.month < 12 THEN [year |-> date.year, month |-> date.month + 1, day |-> 1]
    ELSE [year |-> date.year + 1, month |-> 1, day |-> 1]

PrevDay(date) ==
    IF date.day > 1 THEN [date EXCEPT !.day = @ - 1]
    ELSE IF date.month > 1
         THEN [year |-> date.year, month |-> date.month - 1,
               day |-> DaysInMonth(date.year, date.month - 1)]
    ELSE [year |-> date.year - 1, month |-> 12, day |-> 31]

\* the calendar date n days after (before, for n < 0) a date, one day at a time
RECURSIVE AddDays(_, _)
AddDays(date, n) ==
    IF n = 0 THEN date
    ELSE IF n > 0 THEN AddDays(NextDay(date), n - 1)
    ELSE AddDays(PrevDay(date), n + 1)

IsoFormat(date) ==
    ZeroPad(date.year, 4) \o <<"-">> \o ZeroPad(date.month, 2) \o <<"-">>
    \o ZeroPad(date.day, 2)

\* C7: calculate_deadline never raises; for a start_date that is a valid calendar
\* date written YYYY-MM-DD it returns that date plus days calendar days, written
\* YYYY-MM-DD, and for every other string it returns the error string.
C7_DeadlineTotalAndCorrect ==
    (pc = "tool_done" /\ call.fn = "calculate_deadline") =>
        /\ ret.kind = "return"
        /\ ret.value = IF IsoValid(call.start_date_str)
                       THEN IsoFormat(AddDays(IsoFields(call.start_date_str), call.days))
                       ELSE FormatError

\* the currency markers the claim lists: $, USD, the euro sign, EUR, the pound sign
ListedMarkers ==
    << <<"$">>, <<"U", "S", "D">>, <<"U+20AC">>, <<"E", "U", "R">>, <<"U+00A3">> >>

\* every marker-plus-amount substring of the text, left to right
AmountSubstrings(text) ==
    LET ms == Scan(ListedMarkers, text, 1)
    IN  [k \in 1..Len(ms) |-> SubSeq(text, ms[k].start, ms[k].end - 1)]

\* C8: extract_monetary_values returns, in order of occurrence, every substring of
\* the text that is a currency marker followed by an amount, each element being
\* the whole matched substring, and the empty sequence when there is none.
C8_ExtractsAmountSubstrings ==
    (pc = "tool_done" /\ call.fn = "extract_monetary_values") =>
        ret.value = AmountSubstrings(call.text)

\* md.split("\n")
RECURSIVE LinesOf(_)
LinesOf(md) ==
    IF NL \notin Range(md) THEN <<md>>
    ELSE LET k == CHOOSE i \in 1..Len(md) :
                    md[i] = NL /\ \A j \in 1..(i - 1) : md[j] # NL
         IN  <<SubSeq(md, 1, k - 1)>> \o LinesOf(SubSeq(md, k + 1, Len(md)))

IsBullet(line) == Len(line) = 2 /\ line[1] = "- "

\* the items of the bullet lines that follow line i without a gap
RECURSIVE BulletRun(_, _)
BulletRun(lines, i) ==
    IF i <= Len(lines) /\ IsBullet(lines[i])
    THEN <<lines[i][2]>> \o BulletRun(lines, i + 1)
    ELSE <<>>

HeaderLines(lines, header) == {i \in 1..Len(lines) : lines[i] = <<header>>}

SectionItems(lines, header) ==
    IF HeaderLines(lines, header) = {} THEN <<>>
    ELSE BulletRun(lines, (CHOOSE i \in HeaderLines(lines, header) : TRUE) + 1)

\* C9: the rendered answer starts with the summary section; it has the
\* obligations section exactly when obligations is non-empty and the risks section
\* exactly when risks is non-empty, each with one bullet per item in the original
\* order and no other bullets; the supporting clauses appear only in the evidence
\* section, one entry per clause, in order, with its id and text.
C9_RenderedSections ==
    (pc = "tool_done" /\ call.fn = "render") =>
        LET r == call.response
            lines == LinesOf(ret.value)
        IN  /\ Len(lines) >= 2
            /\ lines[1] = <<SummaryHeader>> /\ lines[2] = <<r.summary>>
            /\ Cardinality(HeaderLines(lines, ObligationsHeader))
                 = IF r.obligations # <<>> THEN 1 ELSE 0
            /\ Cardinality(HeaderLines(lines, RisksHeader))
                 = IF r.risks # <<>> THEN 1 ELSE 0
            /\ SectionItems(lines, ObligationsHeader) = r.obligations
            /\ SectionItems(lines, RisksHeader) = r.risks
            /\ Cardinality({i \in 1..Len(lines) : IsBullet(lines[i])})
                 = Len(r.obligations) + Len(r.risks)
            /\ \A i \in 1..Len(r.supporting_clauses) :
                  r.supporting_clauses[i].id \notin Range(ret.value)
            /\ Len(ret.evidence) = Len(r.supporting_clauses)
            /\ \A i \in 1..Len(ret.evidence) :
                  /\ ret.evidence[i].w = "expander.markdown"
                  /\ ret.evidence[i].text[2] = r.supporting_clauses[i].id
                  /\ ret.evidence[i].text[4] = r.supporting_clauses[i].text

C9_Witness ==
    /\ pc = "tool_done" /\ call.fn = "render"
    /\ call.response.obligations = <<>>
    /\ Len(call.response.risks) = 2
    /\ Len(call.response.supporting_clauses) = 2
    /\ ObligationsHeader \notin Range(ret.value)
    /\ RisksHeader \in Range(ret.value)

====
